---- MODULE Spec2Model ----
(***************************************************************************)
(* A model of with-defer: runWithDefer (src/src/cleanup.ts) and the        *)
(* AggregateError container (src/src/error.ts).                            *)
(*                                                                         *)
(* Each invocation of runWithDefer is a process whose steps are cut at the *)
(* awaits of the async function: the await of func(defer) and the await of *)
(* each onCleanupFn().  The code state of an invocation is its onCleanup   *)
(* array, the position of the for-of array iterator, the errors array and  *)
(* the promise it returns.  regd and log are history variables: the calls  *)
(* made to defer and the executions of cleanup callbacks.                  *)
(***************************************************************************)
EXTENDS Integers, Sequences, FiniteSets, TLC

VARIABLES
    lim,        \* the bounds and input domains of this exploration
    active,     \* the invocations of runWithDefer that take part
    pc,         \* per invocation: where the async function is suspended
    mode,       \* per invocation: how func produced its outcome
    onCleanup,  \* per array: the CleanupCallback[] (cleanup.ts:75)
    idx,        \* per invocation: next index of the for-of iterator (cleanup.ts:84)
    errors,     \* per invocation: the errors array (cleanup.ts:83)
    opOutcome,  \* per invocation: the settled outcome of func(defer) (cleanup.ts:81)
    outcome,    \* per invocation: the promise runWithDefer returned
    regd,       \* history: the calls made to this invocation's defer, in call order
    log,        \* history: the executions of cleanup callbacks, in start order
    heap,       \* the arrays a caller of new AggregateError can reach, by reference
    inst,       \* the AggregateError instance constructed, its errors held by reference
    made        \* history: what the constructor was given

engineVars == <<lim, active, pc, mode, onCleanup, idx, errors, opOutcome, outcome, regd, log>>
containerVars == <<heap, inst, made>>
vars == <<engineVars, containerVars>>

(* ---------------------------------------------------------------- bounds *)

\* defer calls func makes before it settles, in the runs that keep to the contract
MaxRegs == 3
\* the same, and the defer calls made after func settled, in the runs that do not
MaxRegsLate == 2
MaxLate == 1
\* defer calls func makes before it settles, per invocation, when two run together
MaxRegsConc == 2
\* defer calls before and after func settled in the runs where cleanup callbacks
\* keep calling defer
MaxLoopRegs == 1
MaxLoopLate == 2
\* length of the array handed to new AggregateError
MaxSrcLen == 2

(* ---------------------------------------------------------------- inputs *)

Invocations == {"A", "B"}
\* cleanup callbacks a caller may pass to defer
Fns == {"f", "g"}
\* values func may return
Vals == {"v1", "v2"}
\* values func or a cleanup callback may throw / reject with
ErrVals == {"e1", "e2", "e3"}

\* a JavaScript value that is no AggregateError
Plain(x) == [v |-> x]

RECURSIVE SeqsUpTo(_, _)
SeqsUpTo(S, n) ==
    IF n = 0 THEN {<<>>}
    ELSE LET shorter == SeqsUpTo(S, n - 1)
         IN  shorter \cup {Append(s, x) : s \in {t \in shorter : Len(t) = n - 1}, x \in S}

RECURSIVE Reverse(_)
Reverse(s) == IF s = <<>> THEN <<>> ELSE Append(Reverse(Tail(s)), Head(s))

IsPrefix(s, t) == Len(s) <= Len(t) /\ SubSeq(t, 1, Len(s)) = s

(* ------------------------------------------------------- AggregateError *)

AggregateErrorName == "AggregateError"

\* new AggregateError(errs, message): errors is a fresh array [...errs]
AggregateError(errs, message) ==
    [name    |-> AggregateErrorName,
     message |-> message,
     errors  |-> [k \in 1..Len(errs) |-> errs[k]]]

\* the message argument left out
Undefined == "<undefined>"
\* messages a caller may pass
Messages == {"", "No good Johnny!"}

\* no default: the parameter keeps what the caller passed
MessageAsPassed(m) == m

\* constructor(errors, readonly message: string = '')
MessageOrDefault(m) == IF m = Undefined THEN "" ELSE m

Refs == {"source", "copy"}

\* this.errors = errors
ErrorsRefAlias(source, fresh) == source

\* this.errors = [...errors]: the field holds the array the spread created
ErrorsRef(source, fresh) == fresh

NoInstance == [name |-> "none"]
NotMade == [msg |-> Undefined, src |-> <<>>, done |-> FALSE]

\* what instance.errors reads
ErrorsOf(o) == heap[o.errors]

CleanupMessage == "One or more exceptions caught while executing deferred clean-up functions"

(* ----------------------------------------------------------- runWithDefer *)

NoOutcome == [kind |-> "pending"]
Resolved(x) == [kind |-> "resolved", val |-> x]
Rejected(x) == [kind |-> "rejected", val |-> x]

\* a single array shared by every call
SharedList(i) == "A"

\* const onCleanup = [] is created inside the function: one array per call
ListOf(i) == i

\* a callback already in the array is not added again
UnshiftUnique(list, x) ==
    IF \E k \in 1..Len(list) : list[k].fn = x.fn THEN list ELSE <<x>> \o list

\* onCleanup.push(deferredFn)
PushLast(list, x) == Append(list, x)

\* onCleanup.unshift(deferredFn)
Unshift(list, x) == <<x>> \o list

\* errors.unshift(err)
UnshiftError(errs, e) == <<e>> \o errs

\* errors.push(err)
PushError(errs, e) == Append(errs, e)

\* the record of one call defer(f) on invocation i: the callback, who called,
\* and how many cleanup callbacks had been started by then
NewReg(i, f, by) ==
    [id |-> Len(regd[i]) + 1, fn |-> f, inv |-> i, by |-> by, at |-> Len(log[i])]

\* const defer = (deferredFn) => { onCleanup.unshift(deferredFn) }
Defer(i, f, by) ==
    /\ onCleanup' = [onCleanup EXCEPT ![ListOf(i)] = Unshift(@, NewReg(i, f, by))]
    /\ regd' = [regd EXCEPT ![i] = Append(@, NewReg(i, f, by))]

\* the calls func made to defer before it settled, and those made afterwards
OpRegs(i)   == SelectSeq(regd[i], LAMBDA r : r.by = "op")
LateRegs(i) == SelectSeq(regd[i], LAMBDA r : r.by # "op")

RECURSIVE UnshiftAll(_, _)
UnshiftAll(list, recs) ==
    IF recs = <<>> THEN list
    ELSE UnshiftAll(Unshift(list, Head(recs)), Tail(recs))

\* for (const onCleanupFn of onCleanup): the array iterator reads the live
\* array at its next index and stops once the index reaches the length
HasNextButLast(i) == idx[i] + 1 < Len(onCleanup[ListOf(i)])
HasNext(i) == idx[i] < Len(onCleanup[ListOf(i)])
Current(i) == onCleanup[ListOf(i)][idx[i] + 1]

\* onCleanupFn() without the await: the loop goes on while the call is pending
CanStartNoAwait(i) == pc[i] \in {"finally", "awaiting"}

\* func(defer) without the await: the finally block runs while func is pending
CanStartEarly(i) == pc[i] \in {"op", "finally"}

\* await func(defer), await onCleanupFn(): the loop is entered once func has
\* settled and goes on only once the awaited call settled
CanStart(i) == pc[i] = "finally"

\* catch (err) { errors.push(err); break }
AbortAfterCatch(pos, len) == len

\* catch (err) { errors.push(err) }: the loop resumes at the iterator's position
ResumeAfterCatch(pos, len) == pos

\* the failure of func wins over the cleanup failures
FinalOutcomeOperationFirst(errs, op) ==
    IF op.kind = "rejected" THEN op
    ELSE IF Len(errs) > 0 THEN Rejected(AggregateError(errs, CleanupMessage))
    ELSE op

\* every failure is reported as an AggregateError
FinalOutcomeAlwaysAggregate(errs, op) ==
    IF Len(errs) > 0 THEN Rejected(AggregateError(errs, CleanupMessage))
    ELSE IF op.kind = "rejected" THEN Rejected(AggregateError(<<op.val>>, CleanupMessage))
    ELSE op

\* await func(defer) without the return
FinalOutcomeNoReturn(errs, op) ==
    IF Len(errs) > 0 THEN Rejected(AggregateError(errs, CleanupMessage))
    ELSE IF op.kind = "resolved" THEN Resolved(Plain("undefined"))
    ELSE op

\* try { return await func(defer) } finally { ... if (errors.length) throw new AggregateError }
FinalOutcome(errs, op) ==
    IF Len(errs) > 0 THEN Rejected(AggregateError(errs, CleanupMessage))
    ELSE op

TypeOK ==
    /\ active \subseteq Invocations
    /\ pc \in [Invocations -> {"init", "op", "finally", "awaiting", "done"}]
    /\ mode \in [Invocations -> {"none", "sync", "async"}]
    /\ idx \in [Invocations -> Nat]
    /\ \A i \in Invocations : outcome[i].kind \in {"pending", "resolved", "rejected"}

InitWith(l, a) ==
    /\ lim = l
    /\ active = a
    /\ pc = [i \in Invocations |-> "init"]
    /\ mode = [i \in Invocations |-> "none"]
    /\ onCleanup = [i \in Invocations |-> <<>>]
    /\ idx = [i \in Invocations |-> 0]
    /\ errors = [i \in Invocations |-> <<>>]
    /\ opOutcome = [i \in Invocations |-> NoOutcome]
    /\ outcome = [i \in Invocations |-> NoOutcome]
    /\ regd = [i \in Invocations |-> <<>>]
    /\ log = [i \in Invocations |-> <<>>]

\* one call of runWithDefer in which defer is called only while func runs
InContractRuns ==
    InitWith([regs |-> MaxRegs, late |-> 0, fns |-> Fns, errs |-> ErrVals, vals |-> Vals],
             {"A"})

\* one call of runWithDefer in which defer is also called after func settled
LateRuns ==
    InitWith([regs |-> MaxRegsLate, late |-> MaxLate, fns |-> {"f"},
              errs |-> {"e1", "e2"}, vals |-> {"v1"}],
             {"A"})

\* two calls of runWithDefer in flight together
ConcurrentRuns ==
    InitWith([regs |-> MaxRegsConc, late |-> 0, fns |-> {"f"},
              errs |-> {"e1"}, vals |-> {"v1"}],
             Invocations)

\* one call of runWithDefer whose cleanup callbacks keep calling defer
LoopLim ==
    [regs |-> MaxLoopRegs, late |-> MaxLoopLate, fns |-> {"f"}, errs |-> {"e1"}, vals |-> {"v1"}]
LoopRuns == InitWith(LoopLim, {"A"})

\* no AggregateError is constructed by a caller
NoContainer ==
    /\ heap = [r \in Refs |-> <<>>]
    /\ inst = NoInstance
    /\ made = NotMade

Init == (InContractRuns \/ LateRuns \/ ConcurrentRuns \/ LoopRuns) /\ NoContainer

OpResults == {Resolved(Plain(v)) : v \in lim.vals} \cup {Rejected(Plain(e)) : e \in lim.errs}

\* runWithDefer(func) with a func that runs to its return or throw without
\* suspending: every defer call and the outcome happen inside the call
CallSync(i, fs, res) ==
    /\ pc[i] = "init"
    /\ LET recs == [k \in 1..Len(fs) |-> [id |-> k, fn |-> fs[k], inv |-> i, by |-> "op", at |-> 0]]
       IN  /\ onCleanup' = [onCleanup EXCEPT ![ListOf(i)] = UnshiftAll(@, recs)]
           /\ regd' = [regd EXCEPT ![i] = recs]
    /\ opOutcome' = [opOutcome EXCEPT ![i] = res]
    /\ mode' = [mode EXCEPT ![i] = "sync"]
    /\ pc' = [pc EXCEPT ![i] = "finally"]
    /\ UNCHANGED <<lim, active, idx, errors, outcome, log>>

\* runWithDefer(func) with a func that returns a pending promise
CallAsync(i) ==
    /\ pc[i] = "init"
    /\ mode' = [mode EXCEPT ![i] = "async"]
    /\ pc' = [pc EXCEPT ![i] = "op"]
    /\ UNCHANGED <<lim, active, onCleanup, idx, errors, opOutcome, outcome, regd, log>>

\* func calls defer(f) while it is running
OpDefer(i, f) ==
    /\ pc[i] = "op"
    /\ Len(OpRegs(i)) < lim.regs
    /\ Defer(i, f, "op")
    /\ UNCHANGED <<lim, active, pc, mode, idx, errors, opOutcome, outcome, log>>

\* the promise func returned settles; the finally block is entered
OpSettle(i, res) ==
    /\ pc[i] = "op"
    /\ opOutcome' = [opOutcome EXCEPT ![i] = res]
    /\ pc' = [pc EXCEPT ![i] = "finally"]
    /\ UNCHANGED <<lim, active, mode, onCleanup, idx, errors, outcome, regd, log>>

\* the loop takes the next callback, which throws before returning
CleanupThrow(i, e) ==
    /\ CanStart(i)
    /\ HasNext(i)
    /\ log' = [log EXCEPT ![i] = Append(@, [reg |-> Current(i), st |-> "fail", val |-> Plain(e)])]
    /\ errors' = [errors EXCEPT ![i] = PushError(@, Plain(e))]
    /\ idx' = [idx EXCEPT ![i] = ResumeAfterCatch(@ + 1, Len(onCleanup[ListOf(i)]))]
    /\ UNCHANGED <<lim, active, pc, mode, onCleanup, opOutcome, outcome, regd>>

\* the loop takes the next callback, calls it and awaits what it returned
CleanupCall(i) ==
    /\ CanStart(i)
    /\ HasNext(i)
    /\ log' = [log EXCEPT ![i] = Append(@, [reg |-> Current(i), st |-> "pending", val |-> Plain("none")])]
    /\ idx' = [idx EXCEPT ![i] = @ + 1]
    /\ pc' = [pc EXCEPT ![i] = "awaiting"]
    /\ UNCHANGED <<lim, active, mode, onCleanup, errors, opOutcome, outcome, regd>>

\* the execution the loop is awaiting: the latest one that has not settled
Awaited(i) == CHOOSE k \in 1..Len(log[i]) :
                 /\ log[i][k].st = "pending"
                 /\ \A m \in (k + 1)..Len(log[i]) : log[i][m].st # "pending"

\* the awaited callback result fulfils
CleanupResolve(i) ==
    /\ pc[i] = "awaiting"
    /\ log' = [log EXCEPT ![i][Awaited(i)].st = "ok"]
    /\ pc' = [pc EXCEPT ![i] = "finally"]
    /\ UNCHANGED <<lim, active, mode, onCleanup, idx, errors, opOutcome, outcome, regd>>

\* the awaited callback result rejects
CleanupReject(i, e) ==
    /\ pc[i] = "awaiting"
    /\ log' = [log EXCEPT ![i][Awaited(i)] = [@ EXCEPT !.st = "fail", !.val = Plain(e)]]
    /\ errors' = [errors EXCEPT ![i] = PushError(@, Plain(e))]
    /\ idx' = [idx EXCEPT ![i] = ResumeAfterCatch(@, Len(onCleanup[ListOf(i)]))]
    /\ pc' = [pc EXCEPT ![i] = "finally"]
    /\ UNCHANGED <<lim, active, mode, onCleanup, opOutcome, outcome, regd>>

\* the cleanup callback in progress calls defer(f)
CleanupDefer(i, f) ==
    /\ pc[i] = "awaiting"
    /\ Len(LateRegs(i)) < lim.late
    /\ Defer(i, f, "cleanup")
    /\ UNCHANGED <<lim, active, pc, mode, idx, errors, opOutcome, outcome, log>>

\* work that func started and did not await calls defer(f) after func settled
LeftoverDefer(i, f) ==
    /\ pc[i] = "awaiting"
    /\ Len(LateRegs(i)) < lim.late
    /\ Defer(i, f, "leftover")
    /\ UNCHANGED <<lim, active, pc, mode, idx, errors, opOutcome, outcome, log>>

\* the iterator is exhausted: the promise of runWithDefer settles
Finish(i) ==
    /\ CanStart(i)
    /\ ~HasNext(i)
    /\ outcome' = [outcome EXCEPT ![i] = FinalOutcome(errors[i], opOutcome[i])]
    /\ pc' = [pc EXCEPT ![i] = "done"]
    /\ UNCHANGED <<lim, active, mode, onCleanup, idx, errors, opOutcome, regd, log>>

Next ==
    \/ \E i \in active, fs \in SeqsUpTo(lim.fns, lim.regs), res \in OpResults : CallSync(i, fs, res) /\ UNCHANGED containerVars
    \/ \E i \in active : CallAsync(i) /\ UNCHANGED containerVars
    \/ \E i \in active, f \in lim.fns : OpDefer(i, f) /\ UNCHANGED containerVars
    \/ \E i \in active, res \in OpResults : OpSettle(i, res) /\ UNCHANGED containerVars
    \/ \E i \in active, e \in lim.errs : CleanupThrow(i, e) /\ UNCHANGED containerVars
    \/ \E i \in active : CleanupCall(i) /\ UNCHANGED containerVars
    \/ \E i \in active : CleanupResolve(i) /\ UNCHANGED containerVars
    \/ \E i \in active, e \in lim.errs : CleanupReject(i, e) /\ UNCHANGED containerVars
    \/ \E i \in active, f \in lim.fns : CleanupDefer(i, f) /\ UNCHANGED containerVars
    \/ \E i \in active, f \in lim.fns : LeftoverDefer(i, f) /\ UNCHANGED containerVars
    \/ \E i \in active : Finish(i) /\ UNCHANGED containerVars

Spec == Init /\ [][Next]_vars

(* ------------------------------------------- new AggregateError by a caller *)

\* a caller holds an array of failure values and has constructed nothing yet
ContainerInit ==
    /\ InitWith([regs |-> 0, late |-> 0, fns |-> {}, errs |-> {}, vals |-> {}], {})
    /\ \E s \in SeqsUpTo({Plain(e) : e \in ErrVals}, MaxSrcLen) :
          heap = [r \in Refs |-> IF r = "source" THEN s ELSE <<>>]
    /\ inst = NoInstance
    /\ made = NotMade

\* new AggregateError(source, m), m left out when it is Undefined
Construct(m) ==
    /\ inst = NoInstance
    /\ LET e == AggregateError(heap["source"], MessageOrDefault(m))
       IN  /\ heap' = [heap EXCEPT !["copy"] = e.errors]
           /\ inst' = [name |-> e.name, message |-> e.message,
                       errors |-> ErrorsRef("source", "copy")]
    /\ made' = [msg |-> m, src |-> heap["source"], done |-> TRUE]
    /\ UNCHANGED engineVars

\* the caller goes on using its array: source.push(x)
SourcePush(x) ==
    /\ inst # NoInstance
    /\ Len(heap["source"]) < MaxSrcLen
    /\ heap' = [heap EXCEPT !["source"] = Append(@, x)]
    /\ UNCHANGED <<engineVars, inst, made>>

\* source.pop()
SourcePop ==
    /\ inst # NoInstance
    /\ Len(heap["source"]) > 0
    /\ heap' = [heap EXCEPT !["source"] = SubSeq(@, 1, Len(@) - 1)]
    /\ UNCHANGED <<engineVars, inst, made>>

\* source[k - 1] = x
SourceSet(k, x) ==
    /\ inst # NoInstance
    /\ k \in 1..Len(heap["source"])
    /\ heap["source"][k] # x
    /\ heap' = [heap EXCEPT !["source"][k] = x]
    /\ UNCHANGED <<engineVars, inst, made>>

ContainerNext ==
    \/ \E m \in Messages \cup {Undefined} : Construct(m)
    \/ \E e \in ErrVals : SourcePush(Plain(e))
    \/ SourcePop
    \/ \E k \in 1..MaxSrcLen, e \in ErrVals : SourceSet(k, Plain(e))

ContainerSpec == ContainerInit /\ [][ContainerNext]_vars

(* --------------------------------------------------- reading the history *)

\* the registrations whose callbacks the loop has started, in start order
Started(i) == [k \in 1..Len(log[i]) |-> log[i][k].reg]

\* the executions that failed, in execution order, and the values they failed with
Failed(i) == SelectSeq(log[i], LAMBDA x : x.st = "fail")
FailureValues(i) == [k \in 1..Len(Failed(i)) |-> Failed(i)[k].val]

\* defer was called only while func was running
InContract(i) == LateRegs(i) = <<>>

Settled(i) == outcome[i].kind # "pending"

\* err instanceof AggregateError, read off the discriminator
IsAggregate(x) == "name" \in DOMAIN x /\ x.name = AggregateErrorName

(* ------------------------------------------------------------------- C1 *)

\* C1: when func registers a1, ..., aN before it settles (and defer is not
\* called afterwards), the cleanup callbacks are started in the order
\* aN, ..., a1: at every moment the callbacks started so far are the first
\* ones of the reversed registration sequence, whether func returned or
\* threw, synchronously or asynchronously.
C1_LifoStartOrder ==
    \A i \in active :
        InContract(i) => IsPrefix(Started(i), Reverse(OpRegs(i)))

C1_Witness ==
    \E i \in active :
        /\ pc[i] = "done"
        /\ mode[i] = "sync"
        /\ opOutcome[i].kind = "rejected"
        /\ Len(OpRegs(i)) = 3
        /\ OpRegs(i)[1].fn # OpRegs(i)[3].fn
        /\ Started(i) = <<OpRegs(i)[3], OpRegs(i)[2], OpRegs(i)[1]>>

(* ------------------------------------------------------------------- C2 *)

\* C2: a cleanup callback that fails, by throwing or by returning a promise
\* that rejects, does not stop the loop: when runWithDefer has settled,
\* every registered callback has been executed, in reverse registration
\* order, whichever of them failed.
C2_FailureDoesNotStopCleanup ==
    \A i \in active :
        (InContract(i) /\ pc[i] = "done") =>
            /\ Len(log[i]) = Len(OpRegs(i))
            /\ \A k \in 1..Len(log[i]) :
                  log[i][k].reg = OpRegs(i)[Len(OpRegs(i)) + 1 - k]

C2_Witness ==
    \E i \in active :
        /\ pc[i] = "done"
        /\ Len(OpRegs(i)) = 3
        /\ Len(log[i]) = 3
        /\ log[i][1].st = "ok"
        /\ log[i][2].st = "fail"
        /\ log[i][3].st = "ok"

(* ------------------------------------------------------------------- C3 *)

\* C3: whenever at least one cleanup execution failed, runWithDefer rejects
\* with an AggregateError whose errors are exactly the values the failing
\* executions failed with, one per failing execution, in execution order;
\* the errors array holds those values at every moment of the loop.
C3_AggregateCollectsFailures ==
    \A i \in active :
        /\ errors[i] = FailureValues(i)
        /\ (pc[i] = "done" /\ Failed(i) # <<>>) =>
              /\ outcome[i].kind = "rejected"
              /\ IsAggregate(outcome[i].val)
              /\ outcome[i].val.errors = FailureValues(i)

C3_Witness ==
    \E i \in active :
        /\ pc[i] = "done"
        /\ Len(OpRegs(i)) = 3
        /\ Len(log[i]) = 3
        /\ log[i][1].reg.id = 3 /\ log[i][1].val = Plain("e3")
        /\ log[i][2].reg.id = 2 /\ log[i][2].val = Plain("e2")
        /\ log[i][3].reg.id = 1 /\ log[i][3].val = Plain("e1")
        /\ outcome[i].val.errors = <<Plain("e3"), Plain("e2"), Plain("e1")>>

(* ------------------------------------------------------------------- C4 *)

C5_OperationFailurePassesThrough ==
    \A i \in active :
        (pc[i] = "done" /\ opOutcome[i].kind = "rejected" /\ Failed(i) = <<>>) =>
            outcome[i] = Rejected(opOutcome[i].val)

C5_Witness ==
    \E i \in active :
        /\ pc[i] = "done"
        /\ mode[i] = "async"
        /\ opOutcome[i] = Rejected(Plain("e2"))
        /\ Len(log[i]) = 2
        /\ Failed(i) = <<>>
        /\ outcome[i] = Rejected(Plain("e2"))

(* ------------------------------------------------------------------- C6 *)

\* C6: when func succeeds, returning its value synchronously or
\* asynchronously, and no cleanup execution fails (none registered
\* included), runWithDefer resolves with the very value func returned.
C6_OperationResultPassesThrough ==
    \A i \in active :
        (pc[i] = "done" /\ opOutcome[i].kind = "resolved" /\ Failed(i) = <<>>) =>
            outcome[i] = Resolved(opOutcome[i].val)

C6_Witness ==
    \E i \in active :
        /\ pc[i] = "done"
        /\ mode[i] = "sync"
        /\ opOutcome[i] = Resolved(Plain("v2"))
        /\ Len(log[i]) = 2
        /\ Failed(i) = <<>>
        /\ outcome[i] = Resolved(Plain("v2"))

(* ------------------------------------------------------------------- C7 *)

\* C7: within one invocation no two cleanup callbacks are in progress
\* together: a callback is started only after every callback started before
\* it has settled, so only the latest execution can be pending.
C7_OneCleanupAtATime ==
    \A i \in active :
        \A k \in 1..Len(log[i]) :
            k < Len(log[i]) => log[i][k].st # "pending"

C7_Witness ==
    \E i \in active :
        /\ pc[i] = "awaiting"
        /\ Len(log[i]) = 3
        /\ log[i][1].st = "ok"
        /\ log[i][2].st = "fail"
        /\ log[i][3].st = "pending"

(* ------------------------------------------------------------------- C8 *)

\* C8: runWithDefer settles only when the loop is over: at that moment no
\* cleanup execution is pending, the iterator is exhausted, and every
\* callback registered before func settled has been started and has settled.
C8_SettlesAfterAllCleanup ==
    \A i \in active :
        /\ Settled(i) => pc[i] = "done"
        /\ pc[i] = "done" =>
              /\ \A k \in 1..Len(log[i]) : log[i][k].st # "pending"
              /\ idx[i] >= Len(onCleanup[i])
              /\ \A r \in 1..Len(OpRegs(i)) :
                    \E k \in 1..Len(log[i]) : log[i][k].reg = OpRegs(i)[r]

C8_Witness ==
    \E i \in active :
        /\ Settled(i)
        /\ mode[i] = "async"
        /\ Len(OpRegs(i)) = 3
        /\ Len(log[i]) = 3
        /\ log[i][3].st = "ok"

(* ------------------------------------------------------------------- C9 *)

\* the calls to defer made by func or by work func left behind
OperationSteps(i) == SelectSeq(regd[i], LAMBDA r : r.by \in {"op", "leftover"})

\* C9 as stated: no cleanup callback is started before func has settled,
\* and no step of the operation, in any continuation of it, executes once
\* the first cleanup callback has been started.
C9_NoOperationStepDuringCleanup ==
    \A i \in active :
        /\ Len(log[i]) > 0 => opOutcome[i].kind # "pending"
        /\ \A k \in 1..Len(OperationSteps(i)) : OperationSteps(i)[k].at = 0

\* C9 as amended: no cleanup callback is started before func has settled,
\* and the part of func that its returned promise waits for takes no step
\* once a cleanup callback has been started; work that func started and did
\* not await may still run, and call defer, while a cleanup callback is
\* pending.
C9_NoCleanupBeforeOperationSettles ==
    \A i \in active :
        /\ Len(log[i]) > 0 => (opOutcome[i].kind # "pending" /\ pc[i] \notin {"init", "op"})
        /\ \A k \in 1..Len(OpRegs(i)) : OpRegs(i)[k].at = 0

C9_Witness ==
    \E i \in active :
        /\ pc[i] = "done"
        /\ Len(OpRegs(i)) = 2
        /\ \E k \in 1..Len(regd[i]) : regd[i][k].by = "leftover" /\ regd[i][k].at = 1

(* ------------------------------------------------------------------ C10 *)

\* what the history of invocation i alone says its outcome must be
OwnOutcome(i) ==
    IF Failed(i) # <<>>
    THEN Rejected([name    |-> AggregateErrorName,
                   message |-> CleanupMessage,
                   errors  |-> FailureValues(i)])
    ELSE opOutcome[i]

\* C10: invocations in flight together are independent under every
\* interleaving: each executes only callbacks registered through its own
\* defer, in the reverse of its own registration order, and its errors and
\* outcome are those its own func and its own cleanup executions give.
C10_InvocationsIndependent ==
    \A i \in active :
        /\ \A k \in 1..Len(onCleanup[i]) : onCleanup[i][k].inv = i
        /\ \A k \in 1..Len(log[i]) : log[i][k].reg.inv = i
        /\ errors[i] = FailureValues(i)
        /\ InContract(i) => IsPrefix(Started(i), Reverse(OpRegs(i)))
        /\ pc[i] = "done" =>
              /\ InContract(i) => Started(i) = Reverse(OpRegs(i))
              /\ outcome[i] = OwnOutcome(i)

C10_Witness ==
    /\ active = Invocations
    /\ pc["A"] = "awaiting"
    /\ pc["B"] = "awaiting"
    /\ Len(OpRegs("A")) = 2 /\ Len(log["A"]) = 2 /\ errors["A"] # <<>>
    /\ Len(OpRegs("B")) = 2 /\ Len(log["B"]) = 1 /\ errors["B"] = <<>>

(* ------------------------------------------------------------------ C11 *)

\* C11: the errors of an AggregateError are the failures it was constructed
\* from, in the same order and with duplicates kept, and stay so whatever
\* the caller later adds to, removes from or replaces in the source array.
C11_ErrorsIndependentOfSource ==
    inst # NoInstance => ErrorsOf(inst) = made.src

C11_Witness ==
    /\ inst # NoInstance
    /\ made.src = <<Plain("e1"), Plain("e1")>>
    /\ heap["source"] = <<Plain("e2")>>
    /\ ErrorsOf(inst) = <<Plain("e1"), Plain("e1")>>

(* ------------------------------------------------------------------ C12 *)

\* C12: constructing an AggregateError never fails, whatever the source
\* (the empty one included) and whatever the message; the instance has the
\* name 'AggregateError', the message passed, or '' when none was passed,
\* and no errors when no failure was given.
C12_ConstructionTotal ==
    /\ inst = NoInstance => \A m \in Messages \cup {Undefined} : ENABLED Construct(m)
    /\ inst # NoInstance =>
          /\ inst.name = "AggregateError"
          /\ inst.message = (IF made.msg = Undefined THEN "" ELSE made.msg)
          /\ made.src = <<>> => ErrorsOf(inst) = <<>>

C12_Witness ==
    /\ inst # NoInstance
    /\ made.src = <<>>
    /\ made.msg = Undefined
    /\ inst.name = "AggregateError"
    /\ inst.message = ""
    /\ ErrorsOf(inst) = <<>>

(* ------------------------------------------------------------------ C13 *)

\* C13: the sequence of callbacks the cleanup loop executes is fixed when
\* func settles: at every moment the callbacks started are the first ones of
\* the reversed sequence func had registered by then, and when runWithDefer
\* settles they are all of it, whatever calls to defer are made afterwards.
C13_CleanupSequenceFixedAtSettle ==
    \A i \in active :
        /\ IsPrefix(Started(i), Reverse(OpRegs(i)))
        /\ pc[i] = "done" => Started(i) = Reverse(OpRegs(i))

(* ------------------------------------------------------------------ C14 *)

\* the callbacks the iterator has still to visit
LeftToRun(i) == Len(onCleanup[ListOf(i)]) - idx[i]

\* every call to defer adds one callback to visit and every execution takes
\* one away, whenever the call is made
LeftToRunAccounting ==
    \A i \in active : LeftToRun(i) = Len(regd[i]) - Len(log[i])

CountIn(s, Test(_)) == Len(SelectSeq(s, Test))

\* C15: when defer is called only while func is running, each call results
\* in exactly one execution: no registration is executed twice, and when
\* runWithDefer settles the executions are as many as the calls, every
\* registration has been executed, and a callback registered k times has
\* been executed k times.
C15_EachRegistrationExecutedOnce ==
    \A i \in active :
        InContract(i) =>
            /\ \A r \in 1..Len(regd[i]) :
                  CountIn(log[i], LAMBDA x : x.reg = regd[i][r]) <= 1
            /\ pc[i] = "done" =>
                  /\ Len(log[i]) = Len(regd[i])
                  /\ \A r \in 1..Len(regd[i]) :
                        CountIn(log[i], LAMBDA x : x.reg = regd[i][r]) = 1
                  /\ \A f \in Fns :
                        CountIn(log[i], LAMBDA x : x.reg.fn = f)
                            = CountIn(regd[i], LAMBDA r : r.fn = f)

C15_Witness ==
    \E i \in active :
        /\ pc[i] = "done"
        /\ InContract(i)
        /\ Len(regd[i]) = 3
        /\ regd[i][1].fn = "f" /\ regd[i][2].fn = "g" /\ regd[i][3].fn = "f"
        /\ CountIn(log[i], LAMBDA x : x.reg.fn = "f") = 2
        /\ CountIn(log[i], LAMBDA x : x.reg.fn = "g") = 1

(* ------------------------------------------------------------------ C16 *)

\* C16: no registration is executed more than once in an invocation, also
\* when defer is called while the cleanup loop is running: no two
\* executions are of the same registration.
C16_NoRegistrationExecutedTwice ==
    \A i \in active :
        \A k, m \in 1..Len(log[i]) :
            k # m => log[i][k].reg # log[i][m].reg

====
